---- MODULE Spec2Model ----
(***************************************************************************)
(* Partial-update framebuffer engine of pixels-rs (src/src/display.rs),    *)
(* driven by the frame loop of src/src/main.rs.                            *)
(*                                                                         *)
(* The two pixel buffers, the two tile trackers and the panel memory are   *)
(* modelled pixel by pixel on a small panel of 3 x 2 tiles whose last      *)
(* column and last row are partial tiles.                                  *)
(*                                                                         *)
(* Spec follows the frame loop: clear_buffer, the draw calls, then         *)
(* update_with_buffer.  CallSpec makes the calls of one frame with         *)
(* arguments from the whole range of their types.                          *)
(***************************************************************************)
EXTENDS Integers, Sequences, FiniteSets, TLC

(* ------------------------------ bounds --------------------------------- *)
\* The geometry is scaled down so that every pixel of both buffers and of the
\* panel can be enumerated: the device has a 536 x 240 panel (crate::config)
\* cut into tiles of 32 x 32 (TILE_SIZE, display.rs:47), 17 x 8 tiles with a
\* partial last column and a partial last row.  The model keeps that shape,
\* 3 x 2 tiles with a partial last column and a partial last row; every
\* formula of the code is taken over with these three names as parameters.
TILE_SIZE == 4
DISPLAY_WIDTH == 10
DISPLAY_HEIGHT == 6
\* Frames of the main loop that are explored, and draw calls made in them.
MaxFrames == 3
MaxDraws == 2
\* The character cell of the font, scaled with the tiles (the program's font
\* is 10 x 20 on tiles of 32).
CHAR_WIDTH == 2
CHAR_HEIGHT == 3

(* ------------------------- program constants --------------------------- *)
\* Rgb565::BLACK, Rgb565::WHITE, Rgb565::RED as raw values.
BLACK == 0
WHITE == 65535
RED == 63488
\* PrimitiveStyle::with_stroke(RgbColor::WHITE, 2)
LINE_STROKE == 2

Min(a, b) == IF a < b THEN a ELSE b
Max(a, b) == IF a > b THEN a ELSE b

\* usize::div_ceil
DivCeil(a, b) == (a + b - 1) \div b

TILES_X == DivCeil(DISPLAY_WIDTH, TILE_SIZE)
TILES_Y == DivCeil(DISPLAY_HEIGHT, TILE_SIZE)
TOTAL_TILES == TILES_X * TILES_Y
BUFFER_SIZE == DISPLAY_WIDTH * DISPLAY_HEIGHT

Tiles == 0 .. (TOTAL_TILES - 1)
Pixels == 0 .. (BUFFER_SIZE - 1)

(* ------------------------- integer conversions ------------------------- *)
I32_MAX == 2147483647
I32_MIN == (0 - I32_MAX) - 1

\* `v as u16` of an i32: the low 16 bits.
U16_RANGE == 65536
AsU16(v) == v % U16_RANGE

\* i32::saturating_sub
SaturatingSub(a, b) == Max(a - b, I32_MIN)

\* `a + b` on i32 with b >= 0 leaves the type's range: the build with
\* overflow checks panics there, the build without them wraps.
AddOverflows(a, b) == a > I32_MAX - b
WrappingAdd(a, b) ==
    IF AddOverflows(a, b) THEN (((a - I32_MAX) - 1) + b) + I32_MIN ELSE a + b

\* `a * b` and `a + b` on u16 leave the type's range.
MulOverflowsU16(a, b) == a * b >= U16_RANGE
AddOverflowsU16(a, b) == a + b >= U16_RANGE

(* ----------------------------- TileTracker ----------------------------- *)
\* TileTracker::new
TileTrackerNew == [i \in Tiles |-> FALSE]

\* TileTracker::is_dirty
is_dirty(dirty, tile_idx) == tile_idx < TOTAL_TILES /\ dirty[tile_idx]

\* mark_rect that forgets the tiles marked before.
mark_rect_Replace(dirty, x1, y1, x2, y2) ==
    LET min_x == Min(Min(x1, x2), DISPLAY_WIDTH - 1)
        max_x == Min(Max(x1, x2), DISPLAY_WIDTH - 1)
        min_y == Min(Min(y1, y2), DISPLAY_HEIGHT - 1)
        max_y == Min(Max(y1, y2), DISPLAY_HEIGHT - 1)
    IN  [i \in Tiles |->
           /\ (i % TILES_X) \in (min_x \div TILE_SIZE) .. (max_x \div TILE_SIZE)
           /\ (i \div TILES_X) \in (min_y \div TILE_SIZE) .. (max_y \div TILE_SIZE)]

\* mark_rect that takes (x1, y1) for the upper left corner.
mark_rect_Ordered(dirty, x1, y1, x2, y2) ==
    LET tile_x1 == Min(x1, DISPLAY_WIDTH - 1) \div TILE_SIZE
        tile_x2 == Min(x2, DISPLAY_WIDTH - 1) \div TILE_SIZE
        tile_y1 == Min(y1, DISPLAY_HEIGHT - 1) \div TILE_SIZE
        tile_y2 == Min(y2, DISPLAY_HEIGHT - 1) \div TILE_SIZE
        marked == { tile_idx \in { ty * TILES_X + tx : ty \in tile_y1 .. tile_y2,
                                                       tx \in tile_x1 .. tile_x2 } :
                      tile_idx < TOTAL_TILES }
    IN  [i \in Tiles |-> IF i \in marked THEN TRUE ELSE dirty[i]]

\* TileTracker::mark_rect
mark_rect(dirty, x1, y1, x2, y2) ==
    LET min_x == Min(Min(x1, x2), DISPLAY_WIDTH - 1)
        max_x == Min(Max(x1, x2), DISPLAY_WIDTH - 1)
        min_y == Min(Min(y1, y2), DISPLAY_HEIGHT - 1)
        max_y == Min(Max(y1, y2), DISPLAY_HEIGHT - 1)
        tile_x1 == min_x \div TILE_SIZE
        tile_x2 == max_x \div TILE_SIZE
        tile_y1 == min_y \div TILE_SIZE
        tile_y2 == max_y \div TILE_SIZE
        marked == { tile_idx \in { ty * TILES_X + tx : ty \in tile_y1 .. tile_y2,
                                                       tx \in tile_x1 .. tile_x2 } :
                      tile_idx < TOTAL_TILES }
    IN  [i \in Tiles |-> IF i \in marked THEN TRUE ELSE dirty[i]]

(* --------------------------- BufferDrawTarget -------------------------- *)
\* draw_iter that stores a pixel only where the buffer holds the background.
draw_iter_KeepFirst(buffer, coords, color) ==
    LET written == { c[2] * DISPLAY_WIDTH + c[1] :
                       c \in { d \in coords : /\ d[1] >= 0 /\ d[1] < DISPLAY_WIDTH
                                              /\ d[2] >= 0 /\ d[2] < DISPLAY_HEIGHT } }
    IN  [i \in Pixels |-> IF i \in written /\ buffer[i] = BLACK THEN color ELSE buffer[i]]

\* draw_iter without the test of the coordinate against width and height.
draw_iter_NoCoordTest(buffer, coords, color) ==
    LET written == { c[2] * DISPLAY_WIDTH + c[1] : c \in coords }
    IN  [i \in Pixels |-> IF i \in written /\ i < BUFFER_SIZE THEN color ELSE buffer[i]]

\* BufferDrawTarget::draw_iter: every pixel whose coordinate is inside the
\* target is stored at y * width + x, the others are dropped.
draw_iter(buffer, coords, color) ==
    LET written == { c[2] * DISPLAY_WIDTH + c[1] :
                       c \in { d \in coords : /\ d[1] >= 0 /\ d[1] < DISPLAY_WIDTH
                                              /\ d[2] >= 0 /\ d[2] < DISPLAY_HEIGHT } }
    IN  [i \in Pixels |-> IF i \in written /\ i < BUFFER_SIZE THEN color ELSE buffer[i]]

(* ------------------------------ rasterizer ----------------------------- *)
Abs(a) == IF a < 0 THEN -a ELSE a

\* The point of the segment in column/row `t` of its major axis, rounded to
\* the nearest pixel: from (a0, b0) to (a1, b1), a the major axis.
MinorAt(a0, b0, a1, b1, t) ==
    LET den == Abs(a1 - a0)
        num == IF a1 >= a0 THEN (t - a0) * (b1 - b0) ELSE (a0 - t) * (b1 - b0)
    IN  IF den = 0 \/ b1 = b0 THEN b0 ELSE b0 + ((2 * num + den) \div (2 * den))

\* Line::new(start, end).into_styled(LINE_STYLE): the pixels of the segment
\* with its 2-pixel stroke: the centre line and its neighbour on one side
\* across the major axis.  Only the part near the target is enumerated:
\* draw_iter drops whatever lies outside it.
LinePixels(start, end, side) ==
    LET dx == end[1] - start[1]
        dy == end[2] - start[2]
    IN  IF Abs(dx) >= Abs(dy)
        THEN LET lo == Max(Min(start[1], end[1]), 0 - LINE_STROKE)
                 hi == Min(Max(start[1], end[1]), DISPLAY_WIDTH + LINE_STROKE)
             IN  UNION { LET y == MinorAt(start[1], start[2], end[1], end[2], x)
                         IN  { <<x, y>>, <<x, y + side>> } : x \in lo .. hi }
        ELSE LET lo == Max(Min(start[2], end[2]), 0 - LINE_STROKE)
                 hi == Min(Max(start[2], end[2]), DISPLAY_HEIGHT + LINE_STROKE)
             IN  UNION { LET x == MinorAt(start[2], start[1], end[2], end[1], y)
                         IN  { <<x, y>>, <<x + side, y>> } : y \in lo .. hi }

\* Rectangle::new(position - Point::new(1, 1), Size::new(3, 3)), filled.
\* Only the part near the target is enumerated: draw_iter drops whatever lies
\* outside it.
PointPixels(position) ==
    { <<x, y>> : x \in Max(SaturatingSub(position[1], 1), -1)
                        .. (Min(position[1], DISPLAY_WIDTH - 1) + 1),
                 y \in Max(SaturatingSub(position[2], 1), -1)
                        .. (Min(position[2], DISPLAY_HEIGHT - 1) + 1) }

\* str::len of a text given as the character counts of its lines (one byte
\* per character, one per line break).
RECURSIVE TextLen(_)
TextLen(lines) ==
    IF Len(lines) = 0 THEN 0
    ELSE IF Len(lines) = 1 THEN lines[1]
    ELSE lines[1] + 1 + TextLen(Tail(lines))

\* Text::with_baseline(text, position, TEXT_STYLE, Baseline::Top): line k of
\* the text is a row of character cells whose top left corner is
\* CHAR_HEIGHT * (k - 1) below the position; a glyph may light any pixel of
\* its cell.  Only the part near the target is enumerated: draw_iter drops
\* whatever lies outside it.
TextPixels(lines, position) ==
    UNION { { <<x, y>> :
                x \in Max(position[1], -1)
                       .. Min(position[1] + lines[k] * CHAR_WIDTH - 1, DISPLAY_WIDTH),
                y \in Max(position[2] + (k - 1) * CHAR_HEIGHT, -1)
                       .. Min(position[2] + k * CHAR_HEIGHT - 1, DISPLAY_HEIGHT) }
            : k \in 1 .. Len(lines) }

\* The buffer indices of the coordinates that lie inside the target.
InBounds(c) == c[1] >= 0 /\ c[1] < DISPLAY_WIDTH /\ c[2] >= 0 /\ c[2] < DISPLAY_HEIGHT
IndexOf(c) == c[2] * DISPLAY_WIDTH + c[1]
TileOf(c) == (c[2] \div TILE_SIZE) * TILES_X + (c[1] \div TILE_SIZE)
TileOfIndex(i) == TileOf(<<i % DISPLAY_WIDTH, i \div DISPLAY_WIDTH>>)

(* -------------------------------- inputs ------------------------------- *)
\* draw_line calls, each with the side of the centre line on which the
\* second pixel of its stroke lies: a steep edge given top to bottom that
\* crosses a tile row, a flat edge given right to left that crosses two tile
\* columns.
LineInputs == { << <<2, 2>>, <<3, 5>>, -1 >>,
                << <<9, 3>>, <<2, 3>>, -1 >> }
\* draw_colored_point calls: inside the first tile, inside the second tile,
\* on the partial last column, on the corner tile that is partial in both
\* directions.
PointInputs == { <<1, 1>>, <<5, 1>>, <<9, 2>>, <<9, 5>> }
\* write calls, each text as the character counts of its lines: the frame
\* counter, one line at the origin.
TextInputs == { << <<2>>, <<0, 0>> >> }

\* Calls with arguments from the whole range of their types, each made on a
\* fresh frame.
\* draw_line: a diagonal from far above left to far below right; a flat line
\* left of the screen; a flat line whose end is at i32::MAX; a steep line
\* whose end is at i32::MAX; a line whose two end points coincide.
WideLineInputs == { << <<-100, -100>>, <<100, 100>>, -1 >>,
                    << <<-5, 2>>, <<-3, 2>>, -1 >>,
                    << <<0, 1>>, <<I32_MAX, 1>>, -1 >>,
                    << <<1, 0>>, <<1, I32_MAX - 1>>, -1 >>,
                    << <<TILE_SIZE + 1, 2>>, <<TILE_SIZE + 1, 2>>, -1 >> }
\* draw_colored_point: on the corners of the screen, across a tile corner,
\* one pixel and several pixels outside each edge, beyond the u16 range, at
\* i32::MAX.
WidePointInputs == { <<0, 0>>, <<TILE_SIZE, TILE_SIZE - 1>>,
                     <<DISPLAY_WIDTH, 2>>, <<3, DISPLAY_HEIGHT>>,
                     <<-1, -1>>, <<-5, 2>>, <<2, -5>>,
                     <<DISPLAY_WIDTH + 3, DISPLAY_HEIGHT + 3>>,
                     <<U16_RANGE + 5, 2>>, <<I32_MAX, 2>> }
\* mark_rect: the two x corners and the two y corners, in either order,
\* inside one tile, across tiles, on and beyond the last column and row, at
\* u16::MAX.
RectXInputs == { <<0, 0>>, <<TILE_SIZE - 1, TILE_SIZE>>, <<DISPLAY_WIDTH - 1, 2>>,
                 <<DISPLAY_WIDTH, DISPLAY_WIDTH + 2>>, <<TILE_SIZE, U16_RANGE - 1>> }
RectYInputs == { <<0, 0>>, <<DISPLAY_HEIGHT - 1, 1>>,
                 <<DISPLAY_HEIGHT, DISPLAY_HEIGHT + 1>>, <<TILE_SIZE - 1, TILE_SIZE>> }
\* draw_iter: one pixel on each corner of the target, inside it, one step
\* outside each edge, far outside.
PixelInputs == { <<0, 0>>, <<DISPLAY_WIDTH - 1, DISPLAY_HEIGHT - 1>>, <<3, 2>>,
                 <<DISPLAY_WIDTH, 0>>, <<-1, 1>>, <<2, DISPLAY_HEIGHT>>, <<2, -1>>,
                 <<-1000, 1000>> }
\* write: a text as the character counts of its lines, and its position: one
\* line at the origin, as main writes it; one line that ends beyond the right
\* edge; one line left of and above the origin; two lines; a line of
\* U16_RANGE / 2 characters; a position at u16::MAX.
WriteInputs == { << <<2>>, <<0, 0>> >>,
                 << <<4>>, <<TILE_SIZE + 1, 1>> >>,
                 << <<2>>, <<-1, -1>> >>,
                 << <<1, 1>>, <<0, 0>> >>,
                 << <<U16_RANGE \div 2>>, <<0, 0>> >>,
                 << <<1>>, <<U16_RANGE - 1, 0>> >> }

(* ----------------------------- clear_buffer ---------------------------- *)
\* ClearedIndices without the clip of x_end to the display width: the fill
\* of a tile of the last column runs on into the next row.
ClearedIndices_NoClip(prev) ==
    { i \in Pixels :
        \E tile_idx \in { t \in Tiles : is_dirty(prev, t) } :
          LET tile_x == tile_idx % TILES_X
              tile_y == tile_idx \div TILES_X
              x_start == tile_x * TILE_SIZE
              y_start == tile_y * TILE_SIZE
              x_end == (tile_x + 1) * TILE_SIZE
              y_end == Min((tile_y + 1) * TILE_SIZE, DISPLAY_HEIGHT)
          IN  \E y \in y_start .. (y_end - 1) :
                i >= y * DISPLAY_WIDTH + x_start /\ i < y * DISPLAY_WIDTH + x_end }

\* The back-buffer indices that Display::clear_buffer fills: for every tile
\* of prev_tiles, the rows y_start..y_end of row_start..row_end.
ClearedIndices(prev) ==
    UNION { LET tile_x == tile_idx % TILES_X
                tile_y == tile_idx \div TILES_X
                x_start == tile_x * TILE_SIZE
                y_start == tile_y * TILE_SIZE
                x_end == Min((tile_x + 1) * TILE_SIZE, DISPLAY_WIDTH)
                y_end == Min((tile_y + 1) * TILE_SIZE, DISPLAY_HEIGHT)
            IN  UNION { (y * DISPLAY_WIDTH + x_start) .. (y * DISPLAY_WIDTH + x_end - 1) :
                          y \in y_start .. (y_end - 1) }
          : tile_idx \in { t \in Tiles : is_dirty(prev, t) } }

\* clear_buffer that fills nothing.
clear_buffer_NoFill(back, prev) == back

\* Display::clear_buffer on the back buffer.
clear_buffer(back, prev) ==
    LET cleared == ClearedIndices(prev)
    IN  [i \in Pixels |-> IF i \in cleared THEN BLACK ELSE back[i]]

(* -------------------------- update_with_buffer ------------------------- *)
\* batch_start: None
NoBatch == -1

\* BatchSpan without the clip of the last column to the display width.
BatchSpan_NoClip(start_x, tile_x, tile_y) ==
    [ x_start |-> AsU16(start_x * TILE_SIZE),
      x_end   |-> AsU16(tile_x * TILE_SIZE - 1),
      y_start |-> AsU16(tile_y * TILE_SIZE),
      y_end   |-> AsU16(Min((tile_y + 1) * TILE_SIZE, DISPLAY_HEIGHT) - 1) ]

\* BatchSpan whose last row is the first row of the tiles below.
BatchSpan_RowOverlap(start_x, tile_x, tile_y) ==
    [ x_start |-> AsU16(start_x * TILE_SIZE),
      x_end   |-> AsU16(Min(tile_x * TILE_SIZE, DISPLAY_WIDTH) - 1),
      y_start |-> AsU16(tile_y * TILE_SIZE),
      y_end   |-> AsU16(Min((tile_y + 1) * TILE_SIZE, DISPLAY_HEIGHT - 1)) ]

\* The rectangle sent when a batch that began at tile column start_x ends at
\* tile column tile_x of tile row tile_y.
BatchSpan(start_x, tile_x, tile_y) ==
    [ x_start |-> AsU16(start_x * TILE_SIZE),
      x_end   |-> AsU16(Min(tile_x * TILE_SIZE, DISPLAY_WIDTH) - 1),
      y_start |-> AsU16(tile_y * TILE_SIZE),
      y_end   |-> AsU16(Min((tile_y + 1) * TILE_SIZE, DISPLAY_HEIGHT) - 1) ]

\* TileIsDirty without the delayed-clear set.
TileIsDirty_CurrentOnly(cur, prev, tile_x, tile_idx) ==
    tile_x < TILES_X /\ is_dirty(cur, tile_idx)

\* is_dirty of the scan: the column past the last one is never dirty; a tile
\* is sent when it is dirty in current_tiles or in prev_tiles.
TileIsDirty(cur, prev, tile_x, tile_idx) ==
    tile_x < TILES_X /\ (is_dirty(cur, tile_idx) \/ is_dirty(prev, tile_idx))

\* ScanRow over `0..TILES_X` instead of `0..=TILES_X`: a batch that reaches
\* the last column is never closed.
RECURSIVE ScanRow_NoSentinel(_, _, _, _, _)
ScanRow_NoSentinel(cur, prev, tile_y, tile_x, batch_start) ==
    IF tile_x >= TILES_X THEN << >>
    ELSE LET tile_idx == tile_y * TILES_X + tile_x
             dirty == tile_x < TILES_X
                      /\ (is_dirty(cur, tile_idx) \/ is_dirty(prev, tile_idx))
         IN  IF dirty
             THEN ScanRow_NoSentinel(cur, prev, tile_y, tile_x + 1,
                                     IF batch_start = NoBatch THEN tile_x ELSE batch_start)
             ELSE IF batch_start # NoBatch
                  THEN << [ x_start |-> AsU16(batch_start * TILE_SIZE),
                            x_end   |-> AsU16(Min(tile_x * TILE_SIZE, DISPLAY_WIDTH) - 1),
                            y_start |-> AsU16(tile_y * TILE_SIZE),
                            y_end   |-> AsU16(Min((tile_y + 1) * TILE_SIZE,
                                                  DISPLAY_HEIGHT) - 1) ] >>
                       \o ScanRow_NoSentinel(cur, prev, tile_y, tile_x + 1, NoBatch)
                  ELSE ScanRow_NoSentinel(cur, prev, tile_y, tile_x + 1, NoBatch)

\* The inner loop `for tile_x in 0..=TILES_X` from column tile_x on, with the
\* batch_start it carries: the spans it sends, in order.
RECURSIVE ScanRow(_, _, _, _, _)
ScanRow(cur, prev, tile_y, tile_x, batch_start) ==
    IF tile_x > TILES_X THEN << >>
    ELSE LET tile_idx == tile_y * TILES_X + tile_x
             dirty == TileIsDirty(cur, prev, tile_x, tile_idx)
         IN  IF dirty
             THEN ScanRow(cur, prev, tile_y, tile_x + 1,
                          IF batch_start = NoBatch THEN tile_x ELSE batch_start)
             ELSE IF batch_start # NoBatch
                  THEN << BatchSpan(batch_start, tile_x, tile_y) >>
                       \o ScanRow(cur, prev, tile_y, tile_x + 1, NoBatch)
                  ELSE ScanRow(cur, prev, tile_y, tile_x + 1, NoBatch)

\* The outer loop `for tile_y in 0..TILES_Y` from row tile_y on.
RECURSIVE ScanRows(_, _, _)
ScanRows(cur, prev, tile_y) ==
    IF tile_y >= TILES_Y THEN << >>
    ELSE ScanRow(cur, prev, tile_y, 0, NoBatch) \o ScanRows(cur, prev, tile_y + 1)

\* Every slice front_buffer[row_start..row_start + batch_width] of the span
\* is inside the buffer (the slice expression panics otherwise).
SlicesInRange(span) ==
    LET batch_width == span.x_end - span.x_start + 1
    IN  \A y \in span.y_start .. span.y_end :
          LET row_start == y * DISPLAY_WIDTH + span.x_start
          IN  row_start >= 0 /\ batch_width >= 0 /\ row_start + batch_width <= BUFFER_SIZE

\* front_buffer[from..to]
Slice(buffer, from, to) == [j \in 1 .. (to - from) |-> buffer[from + j - 1]]

\* batch_rows with the rows taken batch_width apart instead of DISPLAY_WIDTH.
RECURSIVE batch_rows_WidthStride(_, _, _)
batch_rows_WidthStride(front, span, y) ==
    IF y > span.y_end THEN << >>
    ELSE LET batch_width == span.x_end - span.x_start + 1
             row_start == y * batch_width + span.x_start
         IN  [j \in 1 .. batch_width |-> front[row_start + j - 1]]
             \o batch_rows_WidthStride(front, span, y + 1)

\* batch_pixels: (y_start..=y_end).flat_map of the row slices
\* front_buffer[row_start..row_start + batch_width], from row y on.
RECURSIVE batch_rows(_, _, _)
batch_rows(front, span, y) ==
    IF y > span.y_end THEN << >>
    ELSE LET batch_width == span.x_end - span.x_start + 1
             row_start == y * DISPLAY_WIDTH + span.x_start
         IN  Slice(front, row_start, row_start + batch_width)
             \o batch_rows(front, span, y + 1)

batch_pixels(front, span) == batch_rows(front, span, span.y_start)

\* The panel's set_pixels: the address window (sx, sy)-(ex, ey) is filled
\* from the stream in row-major order; pixels beyond the window or beyond the
\* stream are left as they are.
set_pixels(gram, sx, sy, ex, ey, colors) ==
    LET w == ex - sx + 1
    IN  [i \in Pixels |->
           LET x == i % DISPLAY_WIDTH
               y == i \div DISPLAY_WIDTH
               k == (y - sy) * w + (x - sx) + 1
           IN  IF x >= sx /\ x <= ex /\ y >= sy /\ y <= ey /\ k <= Len(colors)
               THEN colors[k] ELSE gram[i]]

\* The set_pixels calls of one flush: one per span, its pixels read from the
\* front buffer.  `fail` is the call that returns Err (0: none does).
Transfers(front, cur, prev, fail) ==
    LET plan == ScanRows(cur, prev, 0)
    IN  [n \in 1 .. Len(plan) |->
           [ x_start |-> plan[n].x_start, y_start |-> plan[n].y_start,
             x_end |-> plan[n].x_end, y_end |-> plan[n].y_end,
             in_range |-> SlicesInRange(plan[n]),
             pixels |-> IF SlicesInRange(plan[n]) THEN batch_pixels(front, plan[n])
                        ELSE << >>,
             result |-> IF n = fail THEN "Err" ELSE "Ok" ]]

\* TrackersAfter that rotates the trackers on the error path too.
TrackersAfter_RotateOnErr(cur, prev, ok) ==
    [ current |-> TileTrackerNew, prev |-> cur ]

\* TrackersAfter without current_tiles.clear().
TrackersAfter_NoClear(cur, prev, ok) ==
    IF ok THEN [ current |-> cur, prev |-> cur ]
    ELSE [ current |-> cur, prev |-> prev ]

\* The trackers when update_with_buffer returns: rotated after the last
\* span (prev_tiles = current_tiles, current_tiles.clear()), untouched when
\* a set_pixels error has left the function early.
TrackersAfter(cur, prev, ok) ==
    IF ok THEN [ current |-> TileTrackerNew, prev |-> cur ]
    ELSE [ current |-> cur, prev |-> prev ]

\* The panel memory after the first n calls have been carried out.
RECURSIVE Sent(_, _, _)
Sent(gram, calls, n) ==
    IF n = 0 THEN gram
    ELSE set_pixels(Sent(gram, calls, n - 1), calls[n].x_start, calls[n].y_start,
                    calls[n].x_end, calls[n].y_end, calls[n].pixels)

(* -------------------------------- state -------------------------------- *)
VARIABLES
    front_buffer,   \* Display.front_buffer
    back_buffer,    \* Display.back_buffer
    current_tiles,  \* Display.current_tiles
    prev_tiles,     \* Display.prev_tiles
    gram,           \* the panel's memory: what the display shows
    pc,             \* position of main's loop: "clear", "draw", "halted"
    frame,          \* frames begun
    ndraw,          \* draw calls made so far
    op,             \* the Display method that ran last
    ret,            \* what it returned
    calls,          \* the set_pixels calls of the last update_with_buffer
    planned,        \* the number of spans that update_with_buffer had to send
    wrote,          \* buffer indices stored by the last draw call
    drawn,          \* buffer indices stored by the draw calls of this frame
    draws,          \* the draw calls of this frame, in call order
    marked,         \* tiles set by the mark_rect calls of this frame
    marks_ok,       \* every draw call so far left each pixel it stored in a dirty tile
    flushes,        \* one record for every flush that returned Ok
    failed,         \* the Display fields when the first flush of this frame that
                    \* returned Err was entered (empty: none has)
    initialized,    \* the panel controller has taken every command of its init
    pre             \* the Display fields when the last method was entered

vars == << front_buffer, back_buffer, current_tiles, prev_tiles, gram, pc, frame,
           ndraw, op, ret, calls, planned, wrote, drawn, draws, marked,
           marks_ok, flushes, failed, initialized, pre >>

Fields == [ front |-> front_buffer, back |-> back_buffer,
            current |-> current_tiles, prev |-> prev_tiles, gram |-> gram ]

\* The buffers and trackers as Display::new makes them: both buffers black,
\* both trackers clean; the panel is black after its reset.
FreshDisplay ==
    /\ front_buffer = [i \in Pixels |-> BLACK]
    /\ back_buffer = [i \in Pixels |-> BLACK]
    /\ current_tiles = TileTrackerNew
    /\ prev_tiles = TileTrackerNew
    /\ gram = [i \in Pixels |-> BLACK]
    /\ frame = 0
    /\ ndraw = 0
    /\ calls = << >>
    /\ planned = 0
    /\ wrote = {}
    /\ drawn = {}
    /\ draws = << >>
    /\ marked = {}
    /\ marks_ok = TRUE
    /\ flushes = << >>
    /\ failed = << >>
    /\ pre = [ front |-> [i \in Pixels |-> BLACK], back |-> [i \in Pixels |-> BLACK],
               current |-> TileTrackerNew, prev |-> TileTrackerNew,
               gram |-> [i \in Pixels |-> BLACK] ]

\* main after Display::new has returned Ok, at the top of its loop.
Init ==
    /\ FreshDisplay
    /\ pc = "clear"
    /\ op = "new"
    /\ ret = "Ok"
    /\ initialized = TRUE

\* main before it calls Display::new.
BootInit ==
    /\ FreshDisplay
    /\ pc = "new"
    /\ op = "main"
    /\ ret = "Ok"
    /\ initialized = FALSE

\* The places where the bring-up of the panel can fail: the write_raw of an
\* init command, the write_raw of MADCTL, Builder::init on its own account
\* (the reset pin, the commands it sends itself).
InitFailures == { "command", "madctl", "builder" }

\* Display::new with RM67162::init inside it.  RM67162::init unwraps the
\* result of each write_raw and Display::new unwraps the result of
\* Builder::init: a failure at any of the three places is a panic.
DisplayNew(fail) ==
    /\ pc = "new"
    /\ initialized' = (fail = "none")
    /\ ret' = IF fail = "none" THEN "Ok" ELSE "Panic"
    /\ pc' = IF fail = "none" THEN "clear" ELSE "halted"
    /\ op' = "new"
    /\ pre' = Fields
    /\ UNCHANGED << front_buffer, back_buffer, current_tiles, prev_tiles, gram, frame,
                    ndraw, calls, planned, wrote, drawn, draws, marked, marks_ok,
                    flushes, failed >>

\* main: display.clear_buffer() at the top of the loop.
ClearBuffer ==
    /\ pc = "clear"
    /\ frame < MaxFrames
    /\ back_buffer' = clear_buffer(back_buffer, prev_tiles)
    /\ pc' = "draw"
    /\ frame' = frame + 1
    /\ op' = "clear_buffer"
    /\ ret' = "Ok"
    /\ wrote' = {}
    /\ drawn' = {}
    /\ draws' = << >>
    /\ marked' = {}
    /\ failed' = << >>
    /\ UNCHANGED initialized
    /\ pre' = Fields
    /\ UNCHANGED << front_buffer, current_tiles, prev_tiles, gram, ndraw, calls,
                    planned, marks_ok, flushes >>

\* The tiles that one mark_rect call sets.
TilesMarked(x1, y1, x2, y2) ==
    { t \in Tiles : mark_rect(TileTrackerNew, x1, y1, x2, y2)[t] }

\* The corners draw_line hands to mark_rect.
LineCorners(start, end) ==
    [ x1 |-> AsU16(SaturatingSub(Max(start[1], 0), 2)),
      y1 |-> AsU16(SaturatingSub(Max(start[2], 0), 2)),
      x2 |-> AsU16(Min(WrappingAdd(Max(end[1], 0), 2), DISPLAY_WIDTH - 1)),
      y2 |-> AsU16(Min(WrappingAdd(Max(end[2], 0), 2), DISPLAY_HEIGHT - 1)) ]

\* The i32 values that draw_line casts to u16.
LineCasts(start, end) ==
    { SaturatingSub(Max(start[1], 0), 2),
      SaturatingSub(Max(start[2], 0), 2),
      Min(WrappingAdd(Max(end[1], 0), 2), DISPLAY_WIDTH - 1),
      Min(WrappingAdd(Max(end[2], 0), 2), DISPLAY_HEIGHT - 1) }

\* `end.x.max(0) + 2` or `end.y.max(0) + 2` overflows.
LineOverflows(end) ==
    AddOverflows(Max(end[1], 0), 2) \/ AddOverflows(Max(end[2], 0), 2)

\* Display::draw_line.  An overflow of the padding sum stops the program in
\* the build with overflow checks, before anything is marked or stored; the
\* build without them goes on with the wrapped sum.
DrawLine(start, end, side) ==
    /\ pc = "draw"
    /\ ndraw < MaxDraws
    /\ \E panic \in { b \in BOOLEAN : b => LineOverflows(end) } :
         LET c == LineCorners(start, end)
             pixels == IF panic THEN {} ELSE LinePixels(start, end, side)
         IN  /\ current_tiles' = IF panic THEN current_tiles
                                 ELSE mark_rect(current_tiles, c.x1, c.y1, c.x2, c.y2)
             /\ back_buffer' = draw_iter(back_buffer, pixels, WHITE)
             /\ wrote' = { IndexOf(p) : p \in { q \in pixels : InBounds(q) } }
             /\ marked' = IF panic THEN marked
                          ELSE marked \cup TilesMarked(c.x1, c.y1, c.x2, c.y2)
             /\ ret' = IF panic THEN "Panic" ELSE "Ok"
             /\ pc' = IF panic THEN "halted" ELSE pc
    /\ drawn' = drawn \cup wrote'
    /\ marks_ok' = (marks_ok /\ \A i \in wrote' : current_tiles'[TileOfIndex(i)])
    /\ draws' = Append(draws, << "draw_line", start, end >>)
    /\ ndraw' = ndraw + 1
    /\ op' = "draw_line"
    /\ UNCHANGED << failed, initialized >>
    /\ pre' = Fields
    /\ UNCHANGED << front_buffer, prev_tiles, gram, frame, calls, planned, flushes >>

\* PointCorners of the position alone, without the step to either side.
PointCorners_NoPadding(position) ==
    [ x  |-> AsU16(Max(position[1], 0)),
      y  |-> AsU16(Max(position[2], 0)),
      x2 |-> AsU16(Min(position[1], DISPLAY_WIDTH - 1)),
      y2 |-> AsU16(Min(position[2], DISPLAY_HEIGHT - 1)) ]

\* The corners draw_colored_point hands to mark_rect.
PointCorners(position) ==
    [ x  |-> AsU16(Max(SaturatingSub(position[1], 1), 0)),
      y  |-> AsU16(Max(SaturatingSub(position[2], 1), 0)),
      x2 |-> AsU16(Min(WrappingAdd(position[1], 1), DISPLAY_WIDTH - 1)),
      y2 |-> AsU16(Min(WrappingAdd(position[2], 1), DISPLAY_HEIGHT - 1)) ]

\* The i32 values that draw_colored_point casts to u16.
PointCasts(position) ==
    { Max(SaturatingSub(position[1], 1), 0),
      Max(SaturatingSub(position[2], 1), 0),
      Min(WrappingAdd(position[1], 1), DISPLAY_WIDTH - 1),
      Min(WrappingAdd(position[2], 1), DISPLAY_HEIGHT - 1) }

\* `position.x + 1` or `position.y + 1` overflows.
PointOverflows(position) ==
    AddOverflows(position[1], 1) \/ AddOverflows(position[2], 1)

\* Display::draw_colored_point.  An overflow of `position + 1` stops the
\* program in the build with overflow checks, before anything is marked or
\* stored; the build without them goes on with the wrapped sum.
DrawColoredPoint(position, color) ==
    /\ pc = "draw"
    /\ ndraw < MaxDraws
    /\ \E panic \in { b \in BOOLEAN : b => PointOverflows(position) } :
         LET c == PointCorners(position)
             pixels == IF panic THEN {} ELSE PointPixels(position)
         IN  /\ current_tiles' = IF panic THEN current_tiles
                                 ELSE mark_rect(current_tiles, c.x, c.y, c.x2, c.y2)
             /\ back_buffer' = draw_iter(back_buffer, pixels, color)
             /\ wrote' = { IndexOf(p) : p \in { q \in pixels : InBounds(q) } }
             /\ marked' = IF panic THEN marked
                          ELSE marked \cup TilesMarked(c.x, c.y, c.x2, c.y2)
             /\ ret' = IF panic THEN "Panic" ELSE "Ok"
             /\ pc' = IF panic THEN "halted" ELSE pc
    /\ drawn' = drawn \cup wrote'
    /\ marks_ok' = (marks_ok /\ \A i \in wrote' : current_tiles'[TileOfIndex(i)])
    /\ draws' = Append(draws, << "draw_colored_point", position, color >>)
    /\ ndraw' = ndraw + 1
    /\ op' = "draw_colored_point"
    /\ UNCHANGED << failed, initialized >>
    /\ pre' = Fields
    /\ UNCHANGED << front_buffer, prev_tiles, gram, frame, calls, planned, flushes >>

\* The corners write hands to mark_rect: the sums as the build without
\* overflow checks computes them.
WriteCorners(lines, position) ==
    LET text_width == AsU16(AsU16(TextLen(lines)) * CHAR_WIDTH)
        x == AsU16(Max(position[1], 0))
        y == AsU16(Max(position[2], 0))
    IN  [ x  |-> x,
          y  |-> y,
          x2 |-> Min(AsU16(x + text_width), DISPLAY_WIDTH - 1),
          y2 |-> Min(AsU16(y + CHAR_HEIGHT), DISPLAY_HEIGHT - 1) ]

\* The i32 values that write casts to u16.
WriteCasts(position) == { Max(position[1], 0), Max(position[2], 0) }

\* `(text.len() as u16) * 10`, `x + text_width` or `y + text_height`
\* overflows.
WriteOverflows(lines, position) ==
    LET text_width == AsU16(AsU16(TextLen(lines)) * CHAR_WIDTH)
    IN  \/ MulOverflowsU16(AsU16(TextLen(lines)), CHAR_WIDTH)
        \/ AddOverflowsU16(AsU16(Max(position[1], 0)), text_width)
        \/ AddOverflowsU16(AsU16(Max(position[2], 0)), CHAR_HEIGHT)

\* Display::write.  An overflow of the estimate stops the program in the
\* build with overflow checks, before anything is marked or stored; the build
\* without them goes on with the wrapped value.
Write(lines, position) ==
    /\ pc = "draw"
    /\ ndraw < MaxDraws
    /\ \E panic \in { b \in BOOLEAN : b => WriteOverflows(lines, position) } :
         LET c == WriteCorners(lines, position)
             pixels == IF panic THEN {} ELSE TextPixels(lines, position)
         IN  /\ current_tiles' = IF panic THEN current_tiles
                                 ELSE mark_rect(current_tiles, c.x, c.y, c.x2, c.y2)
             /\ back_buffer' = draw_iter(back_buffer, pixels, WHITE)
             /\ wrote' = { IndexOf(p) : p \in { q \in pixels : InBounds(q) } }
             /\ marked' = IF panic THEN marked
                          ELSE marked \cup TilesMarked(c.x, c.y, c.x2, c.y2)
             /\ ret' = IF panic THEN "Panic" ELSE "Ok"
             /\ pc' = IF panic THEN "halted" ELSE pc
    /\ drawn' = drawn \cup wrote'
    /\ marks_ok' = (marks_ok /\ \A i \in wrote' : current_tiles'[TileOfIndex(i)])
    /\ draws' = Append(draws, << "write", lines, position >>)
    /\ ndraw' = ndraw + 1
    /\ op' = "write"
    /\ UNCHANGED << failed, initialized >>
    /\ pre' = Fields
    /\ UNCHANGED << front_buffer, prev_tiles, gram, frame, calls, planned, flushes >>

\* BufferDrawTarget::draw_iter on the back buffer with one Pixel(coord, color),
\* as the drawables of the draw methods call it.
DrawIter(coord, color) ==
    /\ pc = "draw"
    /\ ndraw < MaxDraws
    /\ back_buffer' = draw_iter(back_buffer, {coord}, color)
    /\ wrote' = { IndexOf(p) : p \in { q \in {coord} : InBounds(q) } }
    /\ drawn' = drawn \cup wrote'
    /\ draws' = Append(draws, << "draw_iter", coord, color >>)
    /\ ndraw' = ndraw + 1
    /\ op' = "draw_iter"
    /\ ret' = "Ok"
    /\ UNCHANGED << failed, initialized >>
    /\ pre' = Fields
    /\ UNCHANGED << front_buffer, current_tiles, prev_tiles, gram, pc, frame, calls,
                    planned, marked, marks_ok, flushes >>

\* TileTracker::mark_rect on current_tiles, as the draw methods call it.
MarkRect(x1, y1, x2, y2) ==
    /\ pc = "draw"
    /\ ndraw < MaxDraws
    /\ current_tiles' = mark_rect(current_tiles, x1, y1, x2, y2)
    /\ marked' = marked \cup TilesMarked(x1, y1, x2, y2)
    /\ draws' = Append(draws, << "mark_rect", <<x1, y1>>, <<x2, y2>> >>)
    /\ wrote' = {}
    /\ ndraw' = ndraw + 1
    /\ op' = "mark_rect"
    /\ ret' = "Ok"
    /\ UNCHANGED << failed, initialized >>
    /\ pre' = Fields
    /\ UNCHANGED << front_buffer, back_buffer, prev_tiles, gram, pc, frame, calls,
                    planned, drawn, marks_ok, flushes >>

\* swap that exchanges nothing.
swap_None(front, back) == [ front |-> front, back |-> back ]

\* core::mem::swap(&mut self.front_buffer, &mut self.back_buffer): the two
\* boxes change places, no pixel is copied.
swap(front, back) == [ front |-> back, back |-> front ]

\* The rectangle of a set_pixels call, without its pixels.
Rect(call) == [ x_start |-> call.x_start, y_start |-> call.y_start,
                x_end |-> call.x_end, y_end |-> call.y_end ]

\* Display::update_with_buffer.  `fail` is the set_pixels call that returns
\* Err (0: none does).  The buffers are exchanged first; the calls before the
\* failing one reach the panel; the trackers are rotated only when the loop
\* has run to its end.
update_with_buffer(fail) ==
    /\ LET front == swap(front_buffer, back_buffer).front
           back == swap(front_buffer, back_buffer).back
           all == Transfers(front, current_tiles, prev_tiles, fail)
           made == IF fail = 0 THEN all ELSE SubSeq(all, 1, fail)
           panics == \E n \in 1 .. Len(made) : ~made[n].in_range
           after == TrackersAfter(current_tiles, prev_tiles, fail = 0 /\ ~panics)
       IN  /\ fail <= Len(all)
           /\ front_buffer' = front
           /\ back_buffer' = back
           /\ planned' = Len(all)
           /\ current_tiles' = after.current
           /\ prev_tiles' = after.prev
           /\ IF panics
              THEN /\ calls' = << >>
                   /\ ret' = "Panic"
                   /\ gram' = gram
              ELSE /\ calls' = made
                   /\ ret' = IF fail = 0 THEN "Ok" ELSE "Err"
                   /\ gram' = Sent(gram, all, IF fail = 0 THEN Len(all) ELSE fail - 1)
           /\ flushes' = IF ret' = "Ok"
                         THEN Append(flushes,
                                     [ draws |-> draws, marked |-> marked, drawn |-> drawn,
                                       spans |-> [n \in 1 .. Len(all) |-> Rect(all[n])],
                                       black |-> \A n \in 1 .. Len(all) :
                                                   \A k \in 1 .. Len(all[n].pixels) :
                                                     all[n].pixels[k] = BLACK ])
                         ELSE flushes
    /\ failed' = IF ret' = "Err" /\ failed = << >> THEN << Fields >> ELSE failed
    /\ pc' = IF ret' = "Ok" THEN "clear" ELSE "halted"
    /\ op' = "update_with_buffer"
    /\ pre' = Fields
    /\ UNCHANGED << frame, ndraw, wrote, drawn, draws, marked, marks_ok, initialized >>

\* main: display.update_with_buffer() at the end of the frame; its expect()
\* stops the program on Err.
UpdateWithBuffer(fail) ==
    /\ pc = "draw"
    /\ update_with_buffer(fail)

\* A caller that answers an Err of update_with_buffer by calling it again,
\* with no draw call and no clear_buffer in between.
RetryUpdate(fail) ==
    /\ pc = "halted"
    /\ op = "update_with_buffer"
    /\ ret = "Err"
    /\ update_with_buffer(fail)

UpdateOk == UpdateWithBuffer(0)
UpdateErr == \E fail \in 1 .. TOTAL_TILES : UpdateWithBuffer(fail)

Next ==
    \/ ClearBuffer
    \/ \E l \in LineInputs : DrawLine(l[1], l[2], l[3])
    \/ \E p \in PointInputs : DrawColoredPoint(p, RED)
    \/ \E w \in TextInputs : Write(w[1], w[2])
    \/ UpdateOk
    \/ UpdateErr

Spec == Init /\ [][Next]_vars

\* The frame loop with a caller that retries a failed flush.
RetryOk == RetryUpdate(0)
RetryErr == \E fail \in 1 .. TOTAL_TILES : RetryUpdate(fail)

RetryNext ==
    \/ Next
    \/ RetryOk
    \/ RetryErr

RetrySpec == Init /\ [][RetryNext]_vars

\* main from its start: Display::new, then the frame loop.
NewOk == DisplayNew("none")
NewFails == \E fail \in InitFailures : DisplayNew(fail)

BootNext ==
    \/ NewOk
    \/ NewFails
    \/ Next

BootSpec == BootInit /\ [][BootNext]_vars

\* The calls of one frame with arguments from the whole range of their
\* types: clear_buffer, then mark_rect, draw_line, draw_colored_point, write
\* and draw_iter.
CallNext ==
    \/ ClearBuffer
    \/ \E xs \in RectXInputs, ys \in RectYInputs : MarkRect(xs[1], ys[1], xs[2], ys[2])
    \/ \E l \in WideLineInputs : DrawLine(l[1], l[2], l[3])
    \/ \E p \in WidePointInputs : DrawColoredPoint(p, RED)
    \/ \E w \in WriteInputs : Write(w[1], w[2])
    \/ \E c \in PixelInputs : DrawIter(c, RED)

CallSpec == Init /\ [][CallNext]_vars

(* ------------------------- vocabulary of the claims -------------------- *)
\* The last method was a flush that returned Ok.
FlushedOk == op = "update_with_buffer" /\ ret = "Ok"

\* Pixel i of the screen lies in the rectangle of a set_pixels call.
InRect(i, r) ==
    LET x == i % DISPLAY_WIDTH
        y == i \div DISPLAY_WIDTH
    IN  x >= r.x_start /\ x <= r.x_end /\ y >= r.y_start /\ y <= r.y_end

\* The screen pixel that the k-th element of a call's row-major stream is for.
StreamIndex(call, k) ==
    LET w == call.x_end - call.x_start + 1
    IN  (call.y_start + ((k - 1) \div w)) * DISPLAY_WIDTH + call.x_start + ((k - 1) % w)

\* The pixel area of a tile, clipped to the display.
TilePixels(t) == { i \in Pixels : TileOfIndex(i) = t }

\* The tiles that are dirty in a tracker.
DirtySet(dirty) == { t \in Tiles : dirty[t] }

(* ------------------------------------------------------------------------ *)
\* C1: nothing drawn in a prior frame leaks: every pixel a successful flush
\* transfers holds the background colour or was stored by a draw call of the
\* frame that the flush ends.  Stated for the behaviours in which every draw
\* call has marked the tiles of its pixels.
C1_NoStalePixelTransferred ==
    (FlushedOk /\ marks_ok) =>
        \A n \in 1 .. Len(calls) : \A k \in 1 .. Len(calls[n].pixels) :
            \/ calls[n].pixels[k] = BLACK
            \/ StreamIndex(calls[n], k) \in drawn

\* C2: every in-bounds pixel that draw_line stores lies in a tile that is
\* dirty in current_tiles when draw_line returns.
C2_LineMarksItsPixels ==
    op = "draw_line" => \A i \in wrote : current_tiles[TileOfIndex(i)]

\* C3: no leakage across swap: when frame n has drawn the pixels R and no
\* later frame has stored a pixel of R, the panel shows the background at
\* every pixel of R after each flush from the second one after frame n's.
\* Stated for the behaviours in which every draw call has marked the tiles of
\* its pixels.
C3_BackgroundWithinTwoFlushes ==
    (FlushedOk /\ marks_ok) =>
        \A n \in 1 .. (Len(flushes) - 2) :
            (\A j \in (n + 1) .. Len(flushes) :
                flushes[j].drawn \cap flushes[n].drawn = {})
            => \A i \in flushes[n].drawn : gram[i] = BLACK

\* C4: after every successful flush the panel shows the front buffer at every
\* pixel of the screen.  Stated for the behaviours in which every draw call
\* has marked the tiles of its pixels.
C4_DisplayEqualsFront ==
    (FlushedOk /\ marks_ok) => \A i \in Pixels : gram[i] = front_buffer[i]

(* ------------------------------------------------------------------------ *)
\* Every pixel of tile t lies in one of the rectangles.
SentWhole(spans, t) ==
    \A i \in TilePixels(t) : \E n \in 1 .. Len(spans) : InRect(i, spans[n])

\* Some pixel of tile t lies in one of the rectangles.
SentPartly(spans, t) ==
    \E i \in TilePixels(t) : \E n \in 1 .. Len(spans) : InRect(i, spans[n])

\* The first tile, whole.
FirstTileSpan == [ x_start |-> 0, y_start |-> 0,
                   x_end |-> TILE_SIZE - 1, y_end |-> TILE_SIZE - 1 ]

\* The frames of the concrete scenario: a point inside the first tile, then
\* two frames without a draw call.
ScenarioFrames ==
    /\ Len(flushes) >= 3
    /\ flushes[1].draws = << << "draw_colored_point", <<1, 1>>, RED >> >>
    /\ flushes[2].draws = << >>
    /\ flushes[3].draws = << >>

\* C5: flush N transfers a tile if and only if a draw call marked it during
\* frame N or during frame N-1; in the scenario the first flush sends exactly
\* the first tile, the second flush sends the same span with background only,
\* and the third flush sends nothing.
C5_TransferredIffMarkedNowOrBefore ==
    /\ \A k \in 1 .. Len(flushes) :
          LET before == IF k > 1 THEN flushes[k - 1].marked ELSE {}
          IN  \A t \in Tiles :
                IF t \in flushes[k].marked \cup before
                THEN SentWhole(flushes[k].spans, t)
                ELSE ~SentPartly(flushes[k].spans, t)
    /\ ScenarioFrames =>
          /\ flushes[1].spans = << FirstTileSpan >>
          /\ flushes[2].spans = << FirstTileSpan >>
          /\ flushes[2].black
          /\ flushes[3].spans = << >>

C5_Witness == ScenarioFrames /\ FlushedOk /\ ~flushes[1].black

\* The tiles that the last flush found dirty in either tracker.
DirtyAtFlush == DirtySet(pre.current) \cup DirtySet(pre.prev)

\* C6: span coverage: the spans of a flush cover the pixel area of every
\* dirty tile of current_tiles and prev_tiles, and no span leaves the screen,
\* also for the partial tiles of the last column and the last row.
C6_SpanCoverage ==
    FlushedOk =>
        /\ \A t \in DirtyAtFlush : SentWhole(calls, t)
        /\ \A n \in 1 .. Len(calls) :
              /\ 0 <= calls[n].x_start /\ calls[n].x_start <= calls[n].x_end
              /\ calls[n].x_end < DISPLAY_WIDTH
              /\ 0 <= calls[n].y_start /\ calls[n].y_start <= calls[n].y_end
              /\ calls[n].y_end < DISPLAY_HEIGHT

\* A flush that sends the partial corner tile and a partial tile of the last
\* column of the first tile row.
C6_Witness ==
    /\ FlushedOk
    /\ DISPLAY_WIDTH % TILE_SIZE # 0 /\ DISPLAY_HEIGHT % TILE_SIZE # 0
    /\ (TOTAL_TILES - 1) \in DirtyAtFlush
    /\ (TILES_X - 1) \in DirtyAtFlush

\* The maximal runs of dirty tiles: row, first column, last column.
MaximalRuns(D) ==
    { r \in (0 .. (TILES_Y - 1)) \X (0 .. (TILES_X - 1)) \X (0 .. (TILES_X - 1)) :
        /\ r[2] <= r[3]
        /\ \A c \in r[2] .. r[3] : (r[1] * TILES_X + c) \in D
        /\ (r[2] = 0 \/ (r[1] * TILES_X + r[2] - 1) \notin D)
        /\ (r[3] = TILES_X - 1 \/ (r[1] * TILES_X + r[3] + 1) \notin D) }

\* The pixel rectangle of a run, clipped to the display.
RunRect(r) ==
    [ x_start |-> r[2] * TILE_SIZE,
      y_start |-> r[1] * TILE_SIZE,
      x_end |-> Min((r[3] + 1) * TILE_SIZE, DISPLAY_WIDTH) - 1,
      y_end |-> Min((r[1] + 1) * TILE_SIZE, DISPLAY_HEIGHT) - 1 ]

\* C7: span minimality: a flush sends exactly one span for every maximal
\* horizontal run of dirty tiles of a tile row, covering the whole run and
\* that tile row only; a run that reaches the last column ends with its row,
\* and dirty tiles one above the other go in separate spans.
C7_OneSpanPerRun ==
    FlushedOk =>
        /\ Len(calls) = Cardinality(MaximalRuns(DirtyAtFlush))
        /\ \A r \in MaximalRuns(DirtyAtFlush) :
              \E n \in 1 .. Len(calls) : Rect(calls[n]) = RunRect(r)
        /\ \A n \in 1 .. Len(calls) :
              calls[n].y_start \div TILE_SIZE = calls[n].y_end \div TILE_SIZE

\* A flush whose first tile row is one run of all its tiles, up to the last
\* column, right above a second row that begins with a run of two tiles.
C7_Witness ==
    /\ FlushedOk
    /\ DirtyAtFlush = Tiles \ {TOTAL_TILES - 1}
    /\ Len(calls) = TILES_Y

\* C8: every set_pixels call of a flush keeps the transport contract: the
\* rectangle is ordered and on the screen, the stream holds one pixel per
\* position of the rectangle in row-major order, the pixel for (x, y) is the
\* front buffer's (post swap) at y * W + x, and no slice leaves the buffer.
C8_TransportContract ==
    op = "update_with_buffer" =>
        /\ ret # "Panic"
        /\ \A n \in 1 .. Len(calls) :
              LET c == calls[n]
                  w == c.x_end - c.x_start + 1
                  h == c.y_end - c.y_start + 1
              IN  /\ c.x_start <= c.x_end /\ c.x_end < DISPLAY_WIDTH
                  /\ c.y_start <= c.y_end /\ c.y_end < DISPLAY_HEIGHT
                  /\ c.in_range
                  /\ Len(c.pixels) = w * h
                  /\ \A x \in c.x_start .. c.x_end, y \in c.y_start .. c.y_end :
                        c.pixels[(y - c.y_start) * w + (x - c.x_start) + 1]
                            = front_buffer[y * DISPLAY_WIDTH + x]

\* A flush with a span that does not begin at the left edge and carries drawn
\* and background pixels.
C8_Witness ==
    /\ FlushedOk
    /\ \E n \in 1 .. Len(calls) :
          /\ calls[n].x_start > 0
          /\ \E k \in 1 .. Len(calls[n].pixels) : calls[n].pixels[k] # BLACK
          /\ \E k \in 1 .. Len(calls[n].pixels) : calls[n].pixels[k] = BLACK

\* C9: when a transfer fails, the failing call is the last one made, the
\* error is what the flush returns, and current_tiles and prev_tiles are what
\* they were when the flush began; the panel has changed only where the calls
\* before the failing one wrote.
C9_FailedFlushKeepsDirtyState ==
    op = "update_with_buffer" =>
        /\ (ret = "Err") <=> (\E n \in 1 .. Len(calls) : calls[n].result = "Err")
        /\ ret = "Err" =>
              /\ current_tiles = pre.current
              /\ prev_tiles = pre.prev
              /\ Len(calls) <= planned
              /\ calls[Len(calls)].result = "Err"
              /\ \A n \in 1 .. (Len(calls) - 1) : calls[n].result = "Ok"
              /\ \A i \in Pixels :
                    (\A n \in 1 .. (Len(calls) - 1) : ~InRect(i, calls[n]))
                    => gram[i] = pre.gram[i]

\* A flush of two spans whose first transfer fails: the second is never made
\* and both trackers still hold their tiles.
C9_Witness ==
    /\ op = "update_with_buffer" /\ ret = "Err"
    /\ Len(calls) = 1 /\ planned = 2
    /\ DirtySet(current_tiles) # {}
    /\ DirtySet(prev_tiles) # {}

\* C10: after a successful flush prev_tiles is the set of tiles that were in
\* current_tiles when the flush began and current_tiles is empty; so
\* current_tiles is empty wherever a frame begins.
C10_TrackersRotated ==
    /\ FlushedOk =>
          /\ DirtySet(prev_tiles) = DirtySet(pre.current)
          /\ DirtySet(prev_tiles) = marked
          /\ DirtySet(current_tiles) = {}
    /\ pc = "clear" => DirtySet(current_tiles) = {}

\* A successful flush that began with different, non-empty trackers.
C10_Witness ==
    /\ FlushedOk
    /\ DirtySet(pre.current) # {}
    /\ DirtySet(pre.prev) # {}
    /\ DirtySet(pre.current) # DirtySet(pre.prev)

(* ------------------------------------------------------------------------ *)
\* The call that ran last, as the draw log records it.
LastCall == draws[Len(draws)]

\* The last method was a draw call or a mark_rect that returned.
Returned(name) == op = name /\ ret = "Ok" /\ Len(draws) > 0

\* The rectangle lo..hi (corners inclusive), grown by pad on every side, has
\* no pixel in [0,W) x [0,H).
OffScreen(lo, hi, pad) ==
    \/ hi[1] < 0 - pad
    \/ hi[2] < 0 - pad
    \/ lo[1] >= DISPLAY_WIDTH + pad
    \/ lo[2] >= DISPLAY_HEIGHT + pad

\* The bounding box of a call of the draw log lies off the screen: the
\* rectangle of a mark_rect, the segment of a draw_line with its stroke, the
\* 3 x 3 square of a draw_colored_point.
CallOffScreen(call) ==
    LET a == call[2]
        b == IF call[1] = "draw_colored_point" THEN call[2] ELSE call[3]
        pad == IF call[1] = "mark_rect" THEN 0
               ELSE IF call[1] = "draw_line" THEN LINE_STROKE ELSE 1
    IN  OffScreen(<<Min(a[1], b[1]), Min(a[2], b[2])>>,
                  <<Max(a[1], b[1]), Max(a[2], b[2])>>, pad)

\* C11: a mark_rect whose rectangle lies entirely outside the display, and a
\* draw_line or draw_colored_point whose bounding box lies entirely off the
\* screen, leave every tile of current_tiles as it was.
C11_OffScreenMarksNothing ==
    ( /\ \/ Returned("mark_rect")
         \/ Returned("draw_line")
         \/ Returned("draw_colored_point")
      /\ CallOffScreen(LastCall) )
    => current_tiles = pre.current

(* ------------------------------------------------------------------------ *)
\* C12: idempotent clear: a flush that follows clear_buffer with no draw call
\* in between transfers only background pixels, or no span at all.
C12_ClearThenFlushSendsBackground ==
    (op = "update_with_buffer" /\ draws = << >>) =>
        \A n \in 1 .. Len(calls) : \A k \in 1 .. Len(calls[n].pixels) :
            calls[n].pixels[k] = BLACK

\* A frame without a draw call has sent a span over pixels that the panel
\* showed in another colour, and the buffer it has left holds a drawing.
C12_Witness ==
    /\ FlushedOk
    /\ draws = << >>
    /\ Len(calls) > 0
    /\ \E i \in Pixels : InRect(i, calls[1]) /\ pre.gram[i] # BLACK
    /\ \E i \in Pixels : InRect(i, calls[1]) /\ back_buffer[i] # BLACK

(* ------------------------------------------------------------------------ *)
\* C13: swap, then transfer the front buffer: when update_with_buffer is
\* left, with Ok or with Err and whatever the dirty state was, the front
\* buffer holds what the back buffer held on entry and the back buffer what
\* the front buffer held, and every pixel of every set_pixels call was read
\* from the buffer that was the back buffer on entry.
C13_SwapThenTransferFront ==
    op = "update_with_buffer" =>
        /\ front_buffer = pre.back
        /\ back_buffer = pre.front
        /\ \A n \in 1 .. Len(calls) : \A k \in 1 .. Len(calls[n].pixels) :
              calls[n].pixels[k] = pre.back[StreamIndex(calls[n], k)]

\* A flush has sent a pixel in which the two buffers differed on entry.
C13_Witness ==
    /\ op = "update_with_buffer"
    /\ \E n \in 1 .. Len(calls) : \E k \in 1 .. Len(calls[n].pixels) :
          pre.back[StreamIndex(calls[n], k)] # pre.front[StreamIndex(calls[n], k)]

(* ------------------------------------------------------------------------ *)
\* C14: the front buffer is the one that the last flush that returned Ok has
\* read: a flush that returns Err leaves the front buffer, and the back
\* buffer, as they were when it was called.
C14_FailedFlushKeepsFront ==
    (op = "update_with_buffer" /\ ret = "Err") =>
        /\ front_buffer = pre.front
        /\ back_buffer = pre.back

(* ------------------------------------------------------------------------ *)
\* C15: out-of-bounds writes are dropped: draw_iter given one pixel stores
\* its colour at index y * W + x and nowhere else when 0 <= x < W and
\* 0 <= y < H, leaves the buffer as it was otherwise, and returns Ok.
C15_DrawIterDropsOutOfBounds ==
    op = "draw_iter" =>
        LET x == LastCall[2][1]
            y == LastCall[2][2]
            color == LastCall[3]
        IN  /\ ret = "Ok"
            /\ DOMAIN back_buffer = Pixels
            /\ IF 0 <= x /\ x < DISPLAY_WIDTH /\ 0 <= y /\ y < DISPLAY_HEIGHT
               THEN \A i \in Pixels :
                      back_buffer[i] = IF i = y * DISPLAY_WIDTH + x THEN color
                                       ELSE pre.back[i]
               ELSE back_buffer = pre.back

\* A pixel right of the last column, whose index y * W + x lies inside the
\* buffer, has been dropped from a buffer that holds a drawing.
C15_Witness ==
    /\ op = "draw_iter"
    /\ LastCall[2][1] >= DISPLAY_WIDTH
    /\ LastCall[2][2] * DISPLAY_WIDTH + LastCall[2][1] \in Pixels
    /\ \E i \in Pixels : pre.back[i] # BLACK
    /\ back_buffer = pre.back

(* ------------------------------------------------------------------------ *)
\* C16: out-of-bounds draw safety: draw_line returns Ok for every pair of
\* i32 end points, without an arithmetic overflow on the way, and stores
\* nothing outside the buffer.
C16_DrawLineNeverOverflows ==
    op = "draw_line" =>
        /\ ret = "Ok"
        /\ ~LineOverflows(LastCall[3])
        /\ DOMAIN back_buffer = Pixels
        /\ wrote \subseteq Pixels

(* ------------------------------------------------------------------------ *)
\* C17: clear_buffer sets to the background colour exactly the back-buffer
\* pixels that lie in a tile of prev_tiles, each tile clipped to the width
\* and height of the display, and leaves every other back-buffer pixel, the
\* front buffer, current_tiles and prev_tiles as they were.
C17_ClearBufferEffect ==
    op = "clear_buffer" =>
        /\ DOMAIN back_buffer = Pixels
        /\ \A i \in Pixels :
              back_buffer[i] = IF pre.prev[TileOfIndex(i)] THEN BLACK ELSE pre.back[i]
        /\ front_buffer = pre.front
        /\ current_tiles = pre.current
        /\ prev_tiles = pre.prev

\* clear_buffer has filled a pixel that held a drawing and has kept another
\* one.
C17_Witness ==
    /\ op = "clear_buffer"
    /\ \E i \in Pixels : pre.prev[TileOfIndex(i)] /\ pre.back[i] # BLACK
    /\ \E i \in Pixels : back_buffer[i] # BLACK

(* ------------------------------------------------------------------------ *)
\* C18: draw_colored_point marks what it draws: when it returns, every pixel
\* of the screen within one step of the position holds the colour and lies in
\* a tile that is dirty in current_tiles.
C18_PointMarksItsPixels ==
    Returned("draw_colored_point") =>
        \A i \in Pixels :
            ( /\ Abs((i % DISPLAY_WIDTH) - LastCall[2][1]) <= 1
              /\ Abs((i \div DISPLAY_WIDTH) - LastCall[2][2]) <= 1 )
            => /\ back_buffer[i] = LastCall[3]
               /\ i \in wrote
               /\ current_tiles[TileOfIndex(i)]

\* A square that lies across a tile corner has been drawn: its nine pixels
\* are in four tiles.
C18_Witness ==
    /\ Returned("draw_colored_point")
    /\ Cardinality(wrote) = 9
    /\ Cardinality({ TileOfIndex(i) : i \in wrote }) = 4

(* ------------------------------------------------------------------------ *)
\* C19: write marks what it draws and its estimate cannot fail: for every
\* text and position the estimated rectangle is computed without an overflow
\* of its 16-bit sums and product, write returns Ok, and every pixel of the
\* screen that the text has stored lies in a tile that is dirty in
\* current_tiles.
C19_WriteEstimateCoversText ==
    op = "write" =>
        /\ ~WriteOverflows(LastCall[2], LastCall[3])
        /\ ret = "Ok"
        /\ \A i \in wrote : current_tiles[TileOfIndex(i)]

(* ------------------------------------------------------------------------ *)
\* The tile columns (rows) between two coordinates given in any order, each
\* clamped to the last pixel first.
TileRange(v1, v2, last) ==
    LET c1 == IF v1 > last THEN last ELSE v1
        c2 == IF v2 > last THEN last ELSE v2
    IN  IF c1 <= c2 THEN (c1 \div TILE_SIZE) .. (c2 \div TILE_SIZE)
        ELSE (c2 \div TILE_SIZE) .. (c1 \div TILE_SIZE)

\* C20: mark_rect sets exactly the tiles of the inclusive tile range of its
\* rectangle: with the corners in any order and each coordinate clamped to
\* the display, the tiles (tx, ty) with tx between min_x / TILE_SIZE and
\* max_x / TILE_SIZE and ty between min_y / TILE_SIZE and max_y / TILE_SIZE
\* are dirty afterwards, every other tile is as it was, no dirty tile has
\* become clean and the tracker has no tile outside 0..TOTAL_TILES.
C20_MarkRectSetsTileRange ==
    op = "mark_rect" =>
        /\ DOMAIN current_tiles = 0 .. (TOTAL_TILES - 1)
        /\ \A t \in Tiles :
              LET in_range ==
                    /\ (t % TILES_X) \in
                          TileRange(LastCall[2][1], LastCall[3][1], DISPLAY_WIDTH - 1)
                    /\ (t \div TILES_X) \in
                          TileRange(LastCall[2][2], LastCall[3][2], DISPLAY_HEIGHT - 1)
              IN  /\ current_tiles[t] = (in_range \/ pre.current[t])
                  /\ pre.current[t] => current_tiles[t]

\* A rectangle given right corner first has marked more than one tile on a
\* tracker that held a dirty tile outside its range.
C20_Witness ==
    /\ op = "mark_rect"
    /\ LastCall[2][1] > LastCall[3][1]
    /\ Cardinality(DirtySet(current_tiles) \ DirtySet(pre.current)) > 1
    /\ \E t \in Tiles :
          /\ pre.current[t]
          /\ (t \div TILES_X) \notin
                TileRange(LastCall[2][2], LastCall[3][2], DISPLAY_HEIGHT - 1)

(* ------------------------------------------------------------------------ *)
\* C21: marking a rectangle of zero area is a no-op: a draw_line whose two
\* end points coincide leaves every tile of current_tiles as it was, and the
\* tracker has no tile outside 0..TOTAL_TILES.
C21_DegenerateLineMarksNothing ==
    (Returned("draw_line") /\ LastCall[2] = LastCall[3]) =>
        /\ current_tiles = pre.current
        /\ DOMAIN current_tiles = 0 .. (TOTAL_TILES - 1)

(* ------------------------------------------------------------------------ *)
\* C22: the spans of one flush are the smallest adequate set: no two
\* set_pixels calls of a flush cover the same pixel, every pixel they cover
\* lies in a tile that was dirty in current_tiles or prev_tiles when the
\* flush began, and a flush that returns Ok covers every pixel of those
\* tiles.
C22_SpansExactAndDisjoint ==
    op = "update_with_buffer" =>
        LET D == DirtySet(pre.current) \cup DirtySet(pre.prev)
        IN  /\ \A m \in 1 .. Len(calls) : \A n \in 1 .. Len(calls) :
                  m # n => \A i \in Pixels : ~(InRect(i, calls[m]) /\ InRect(i, calls[n]))
            /\ \A n \in 1 .. Len(calls) :
                  /\ calls[n].x_start <= calls[n].x_end
                  /\ calls[n].y_start <= calls[n].y_end
                  /\ calls[n].x_end < DISPLAY_WIDTH
                  /\ calls[n].y_end < DISPLAY_HEIGHT
            /\ \A i \in Pixels :
                  (\E n \in 1 .. Len(calls) : InRect(i, calls[n])) => TileOfIndex(i) \in D
            /\ ret = "Ok" =>
                  \A i \in Pixels :
                     TileOfIndex(i) \in D => \E n \in 1 .. Len(calls) : InRect(i, calls[n])

\* A flush has sent spans in both tile rows while a tile of each row was
\* clean.
C22_Witness ==
    /\ FlushedOk
    /\ \E m \in 1 .. Len(calls) : \E n \in 1 .. Len(calls) :
          calls[m].y_start # calls[n].y_start
    /\ \E s \in Tiles : \E t \in Tiles :
          /\ s \div TILES_X # t \div TILES_X
          /\ s \notin DirtySet(pre.current) \cup DirtySet(pre.prev)
          /\ t \notin DirtySet(pre.current) \cup DirtySet(pre.prev)

(* ------------------------------------------------------------------------ *)
\* C23: a failed flush is recoverable by retrying: when update_with_buffer
\* has returned Err and a later call of the same frame, with no draw call and
\* no clear_buffer in between, returns Ok, that call sends every tile that
\* was dirty when the failed call began, with the pixels that the back buffer
\* held then: the frame that was drawn.
C23_RetrySendsFailedFrame ==
    (FlushedOk /\ failed # << >>) =>
        /\ \A t \in DirtySet(failed[1].current) : SentWhole(calls, t)
        /\ \A n \in 1 .. Len(calls) : \A k \in 1 .. Len(calls[n].pixels) :
              TileOfIndex(StreamIndex(calls[n], k)) \in DirtySet(failed[1].current)
              => calls[n].pixels[k] = failed[1].back[StreamIndex(calls[n], k)]

(* ------------------------------------------------------------------------ *)
\* C24: only the back buffer is drawn into: write, draw_line and
\* draw_colored_point leave every pixel of the front buffer and every entry
\* of prev_tiles as they were, and no tile that was dirty in current_tiles is
\* clean afterwards.
C24_DrawsKeepFrontAndPrev ==
    op \in { "write", "draw_line", "draw_colored_point" } =>
        /\ front_buffer = pre.front
        /\ prev_tiles = pre.prev
        /\ \A t \in Tiles : pre.current[t] => current_tiles[t]

\* A draw call has stored a pixel at a place where the front buffer holds a
\* drawing, in a tile of prev_tiles.
C24_Witness ==
    /\ op \in { "write", "draw_line", "draw_colored_point" }
    /\ \E i \in wrote : pre.front[i] # BLACK /\ pre.prev[TileOfIndex(i)]

(* ------------------------------------------------------------------------ *)
\* A value that `as u16` leaves as it is.
InU16(v) == 0 <= v /\ v < U16_RANGE

\* C25: the casts from i32 to u16 of the dirty rectangles never change a
\* value: in draw_line, draw_colored_point and write every coordinate is
\* within 0..=65535 before it is cast, so the corner handed to mark_rect is
\* the value that was computed.
C25_CastsKeepValues ==
    /\ Returned("draw_line") =>
          /\ \A v \in LineCasts(LastCall[2], LastCall[3]) : InU16(v)
          /\ LineCorners(LastCall[2], LastCall[3]).x1 <= Max(Min(LastCall[2][1], LastCall[3][1]), 0)
          /\ LineCorners(LastCall[2], LastCall[3]).y1 <= Max(Min(LastCall[2][2], LastCall[3][2]), 0)
    /\ Returned("draw_colored_point") =>
          \A v \in PointCasts(LastCall[2]) : InU16(v)
    /\ Returned("write") =>
          \A v \in WriteCasts(LastCall[3]) : InU16(v)

(* ------------------------------------------------------------------------ *)
\* The buffer indices that a call of the draw log stores, and its colour.
CallWrote(call) ==
    LET pixels ==
          IF call[1] = "draw_line"
          THEN UNION { LinePixels(l[1], l[2], l[3]) :
                         l \in { m \in LineInputs : m[1] = call[2] /\ m[2] = call[3] } }
          ELSE IF call[1] = "draw_colored_point" THEN PointPixels(call[2])
          ELSE TextPixels(call[2], call[3])
    IN  { IndexOf(p) : p \in { q \in pixels : InBounds(q) } }

CallColor(call) == IF call[1] = "draw_colored_point" THEN call[3] ELSE WHITE

\* The draw call of the log that stored pixel i last.
LastWriter(log, i) ==
    CHOOSE n \in 1 .. Len(log) :
        /\ i \in CallWrote(log[n])
        /\ \A m \in (n + 1) .. Len(log) : i \notin CallWrote(log[m])

\* C26: the draw calls of a frame apply in call order, the last write wins:
\* every pixel that a draw call stores holds that call's colour in the back
\* buffer when the call returns, and a pixel drawn in the frame that the next
\* successful flush transfers is sent in the colour of the last draw call of
\* the frame that stored it.
C26_LastWriteWins ==
    /\ ( \/ Returned("write")
         \/ Returned("draw_line")
         \/ Returned("draw_colored_point") )
       => /\ wrote = CallWrote(LastCall)
          /\ \A i \in wrote : back_buffer[i] = CallColor(LastCall)
          /\ \A i \in drawn \ wrote : back_buffer[i] = pre.back[i]
    /\ FlushedOk =>
          \A n \in 1 .. Len(calls) : \A k \in 1 .. Len(calls[n].pixels) :
              StreamIndex(calls[n], k) \in drawn
              => calls[n].pixels[k] =
                    CallColor(draws[LastWriter(draws, StreamIndex(calls[n], k))])

\* Two draw calls of one frame in different colours have stored the same
\* pixel, and the flush has put the later colour on the panel.
C26_Witness ==
    /\ FlushedOk
    /\ Len(draws) = 2
    /\ CallColor(draws[1]) # CallColor(draws[2])
    /\ \E i \in CallWrote(draws[1]) \cap CallWrote(draws[2]) :
          /\ gram[i] = CallColor(draws[2])
          /\ \E n \in 1 .. Len(calls) : InRect(i, calls[n])

(* ------------------------------------------------------------------------ *)
\* C27: a failure of the controller's initialization is surfaced as an error
\* value: Display::new returns Ok or Err to its caller, and it returns Ok
\* only when the controller has taken every command of its init.
C27_InitFailureIsErr ==
    op = "new" =>
        /\ ret \in { "Ok", "Err" }
        /\ ret = "Ok" => initialized
        /\ ~initialized => ret = "Err"

====
